---- MODULE Spec2Model ----
(***************************************************************************)
(* A model of utils/dataset.py: the persisted train/validation split of    *)
(* the RSNA dataset (rsna_train_valid_split), the two dataset adapters     *)
(* (RSNAICHDataset, PhysioNetICHDataset) and the image readers.            *)
(***************************************************************************)
EXTENDS Integers, Sequences, FiniteSets, TLC

VARIABLES
    dir,    \* root/stage_2_train: NoDir, or its entries in the order os.listdir yields them
    csv,    \* root/stage_2_train.csv: NoFile, or its rows (row 1 is the header)
    art,    \* the four split artifacts under root: NoFile or a pickled blob each
    ret,    \* what the call of rsna_train_valid_split that has just returned did and
            \* returned; NoCall once the directory or the label table has changed since
    built,  \* <<the outcome of the latest rebuilding call that returned>>, <<>> before
    fs,     \* the image files under root: what each path refers to
    ds,     \* the dataset object in use (NoDataset before one is constructed)
    out     \* what the last sample access or image read did and returned

splitVars == <<dir, csv, art, ret, built>>

dataVars == <<fs, ds, out>>

vars == <<dir, csv, art, ret, built, fs, ds, out>>

\* ------------------------------------------------------------------ bounds

\* The largest number of entries of stage_2_train.
MaxFiles == 3

\* ------------------------------------------------------------ the file system

\* A directory that does not exist, and a file that does not exist. A file that
\* exists holds data: <<>> when it is empty, <<obj>> when obj was pickled into it
\* (the label table holds its rows instead).
NoDir == [exists |-> FALSE, entries |-> <<>>]
NoFile == [exists |-> FALSE, data |-> <<>>]
Directory(entries) == [exists |-> TRUE, entries |-> entries]
File(data) == [exists |-> TRUE, data |-> data]

\* File names are sequences of tokens, "." being the extension separator.
CorruptedFile == <<"ID_6431af929", ".", "dcm">>
corrupted_files == <<CorruptedFile>>

FileA == <<"ID_a", ".", "dcm">>
FileB == <<"ID_b", ".", "dcm">>
FileC == <<"ID_c", ".", "dcm">>

FileNames == {CorruptedFile, FileA, FileB, FileC}

SUBTYPES == <<"epidural", "intraparenchymal", "intraventricular", "subarachnoid", "subdural", "any">>

ArtifactNames == {"train_file_split", "validation_file_split", "train_label_split", "validation_label_split"}

Range(s) == {s[i] : i \in 1..Len(s)}

\* filename.split('.')[0]: what precedes the first "."
SplitDot0(filename) ==
    IF \E i \in 1..Len(filename) : filename[i] = "."
    THEN LET first == CHOOSE i \in 1..Len(filename) :
                         /\ filename[i] = "."
                         /\ \A j \in 1..(i - 1) : filename[j] # "."
         IN  SubSeq(filename, 1, first - 1)
    ELSE filename

\* filename.split('.')[0] + "_" + x
LabelKey(filename, x) == SplitDot0(filename) \o <<"_", x>>

\* ------------------------------------------------------------ label tables

Header == <<"ID", "Label">>

\* The rows of one file in stage_2_train.csv: one "id_subtype,label" row for
\* each subtype in present, the labels given as the text of the cells.
RowsOf(filename, cells, present) ==
    LET all == [i \in 1..Len(SUBTYPES) |-> <<LabelKey(filename, SUBTYPES[i]), cells[i]>>]
        keep(row) == row[1][Len(row[1])] \in present
    IN  SelectSeq(all, keep)

AllSubtypes == Range(SUBTYPES)

CellsA == <<"1", "0", "0", "0", "0", "1">>
CellsB == <<"0", "0", "0", "0", "0", "0">>
CellsC == <<"0", "0", "0", "1", "1", "1">>
CellsD == <<"0", "1", "0", "0", "0", "1">>

\* Every file but the corrupted one has its six rows.
TableNoCorrupted ==
    <<Header>> \o RowsOf(FileA, CellsA, AllSubtypes) \o RowsOf(FileB, CellsB, AllSubtypes)
               \o RowsOf(FileC, CellsC, AllSubtypes)

\* File B lacks its "any" row, and file A is listed twice with different labels.
TableMissAny ==
    <<Header>> \o RowsOf(FileA, CellsC, AllSubtypes)
               \o RowsOf(FileB, CellsB, AllSubtypes \ {"any"})
               \o RowsOf(FileC, CellsC, AllSubtypes)
               \o RowsOf(CorruptedFile, CellsD, AllSubtypes)
               \o RowsOf(FileA, CellsD, AllSubtypes)

Tables == {TableNoCorrupted, TableMissAny}

\* ------------------------------------------------------------ helpers of the call

\* list.remove(x): the list without its first x
ListRemove(s, x) ==
    LET first == CHOOSE i \in 1..Len(s) : s[i] = x /\ \A j \in 1..(i - 1) : s[j] # x
    IN  SubSeq(s, 1, first - 1) \o SubSeq(s, first + 1, Len(s))

\* A slip: the corrupted files are left in the listing.
KeepCorrupted(total_filenames) == total_filenames

\* for corrupted_file in corrupted_files: if it is listed, remove it
RECURSIVE RemoveFrom(_, _, _)
RemoveFrom(total_filenames, corrupted, k) ==
    IF k > Len(corrupted) THEN total_filenames
    ELSE RemoveFrom(IF corrupted[k] \in Range(total_filenames)
                    THEN ListRemove(total_filenames, corrupted[k])
                    ELSE total_filenames,
                    corrupted, k + 1)

RemoveCorrupted(total_filenames) == RemoveFrom(total_filenames, corrupted_files, 1)

\* float(text) of a label cell
ParseFloat(text) == CASE text = "0" -> 0 [] text = "1" -> 1

\* labels_dict[row[0]] = float(row[1]) for every row but the first; a key that
\* comes twice keeps its last value
RECURSIVE ReadRows(_, _, _)
ReadRows(rows, i, labels_dict) ==
    IF i > Len(rows) THEN labels_dict
    ELSE ReadRows(rows, i + 1,
                  IF i = 1 THEN labels_dict
                  ELSE (rows[i][1] :> ParseFloat(rows[i][2])) @@ labels_dict)

ReadLabels(rows) == ReadRows(rows, 1, <<>>)

\* labels_dict[key] raises KeyError for one of the keys of filename
RaisesKeyError(labels_dict, filename) ==
    \E i \in 1..Len(SUBTYPES) : LabelKey(filename, SUBTYPES[i]) \notin DOMAIN labels_dict

\* [float(labels_dict[key]) for key in [filename.split('.')[0] + "_" + x for x in SUBTYPES]]
LabelRow(labels_dict, filename) ==
    [i \in 1..Len(SUBTYPES) |-> labels_dict[LabelKey(filename, SUBTYPES[i])]]

\* The generator behind random_state: a linear congruential generator.
NextRandom(s) == (5 * s + 3) % 16

Swap(p, i, j) == [p EXCEPT ![i] = p[j], ![j] = p[i]]

\* rng.permutation(n): a Fisher-Yates shuffle of 1..n
RECURSIVE Shuffle(_, _, _)
Shuffle(p, i, s) ==
    IF i <= 1 THEN p
    ELSE Shuffle(Swap(p, i, (s % i) + 1), i - 1, NextRandom(s))

Permutation(random_state, n) == Shuffle([i \in 1..n |-> i], n, NextRandom(random_state % 16))

\* n_test = ceil(test_size * n_samples), test_size given in percent
NumTest(validation_size, n) == (validation_size * n + 99) \div 100

\* the positions of the validation subset: permutation[:n_test]
TestIndices(permutation, n_test) == SubSeq(permutation, 1, n_test)

\* A slip: the train subset taken from one position too early.
TrainIndicesFromTest(permutation, n_test) == SubSeq(permutation, n_test, Len(permutation))

\* the positions of the train subset: permutation[n_test:n_test + n_train]
TrainIndices(permutation, n_test) == SubSeq(permutation, n_test + 1, Len(permutation))

Take(s, idx) == [k \in 1..Len(idx) |-> s[idx[k]]]

\* train_test_split raises ValueError: no sample, or an empty train subset
SplitRaises(n, validation_size) == n = 0 \/ n - NumTest(validation_size, n) = 0

\* A slip: the file names are shuffled, the label rows are cut in their own order.
SplitByUnshuffledLabels(total_filenames, labels, train, test) ==
    <<Take(total_filenames, train), Take(total_filenames, test),
      SubSeq(labels, 1, Len(train)), SubSeq(labels, Len(train) + 1, Len(labels))>>

\* Each array indexed by the train positions and by the test positions, in the
\* order train_test_split returns them.
SplitBy(total_filenames, labels, train, test) ==
    <<Take(total_filenames, train), Take(total_filenames, test),
      Take(labels, train), Take(labels, test)>>

ShuffleSplit(total_filenames, labels, permutation, n_test) ==
    SplitBy(total_filenames, labels,
            TrainIndices(permutation, n_test), TestIndices(permutation, n_test))

\* train_test_split(total_filenames, labels, test_size, random_state)
train_test_split(total_filenames, labels, validation_size, random_state) ==
    ShuffleSplit(total_filenames, labels,
                 Permutation(random_state, Len(total_filenames)),
                 NumTest(validation_size, Len(total_filenames)))

\* pickle.dump(obj, f) into a file opened "wb", and pickle.load(f)
pickle_dump(obj) == File(<<obj>>)
pickle_load(file) == file.data[1]

\* ------------------------------------------------------------ rsna_train_valid_split

\* os.path.isfile of each of the four artifacts
AllArtifactsExist(a) ==
    /\ a.train_file_split.exists
    /\ a.validation_file_split.exists
    /\ a.train_label_split.exists
    /\ a.validation_label_split.exists

\* What a call did: its status ("ok" or "error"), the exception, the returned
\* tuple, the path taken, and which steps ran (os.listdir, the reading of the
\* label table, the writing of the artifacts); for a split that was built, what
\* it was built from (the entries os.listdir gave, as a set, and the arguments).
Outcome(status, error, value, path, listed, readLabels, wrote, from) ==
    [status |-> status, error |-> error, value |-> value, path |-> path,
     listed |-> listed, readLabels |-> readLabels, wrote |-> wrote, from |-> from]

\* No call has returned since the directory or the label table last changed.
NoCall == Outcome("none", "", <<>>, "none", FALSE, FALSE, FALSE, <<>>)

BuiltFrom(entries, validation_size, random_state, override) ==
    <<[entries |-> Range(entries), validation_size |-> validation_size,
       random_state |-> random_state, override |-> override]>>

\* A slip: the artifacts loaded in the order their paths are defined in.
LoadArtifactsFilesFirst(a) ==
    <<pickle_load(a.train_file_split), pickle_load(a.validation_file_split),
      pickle_load(a.train_label_split), pickle_load(a.validation_label_split)>>

\* return pickle.load(tf), pickle.load(tl), pickle.load(vf), pickle.load(vl)
LoadArtifacts(a) ==
    <<pickle_load(a.train_file_split), pickle_load(a.train_label_split),
      pickle_load(a.validation_file_split), pickle_load(a.validation_label_split)>>

\* The fast path: the four artifacts are read, nothing else is touched.
LoadPath(a) ==
    IF \E name \in ArtifactNames : a[name].data = <<>>
    THEN Outcome("error", "EOFError", <<>>, "load", FALSE, FALSE, FALSE, <<>>)
    ELSE Outcome("ok", "", LoadArtifacts(a), "load", FALSE, FALSE, FALSE, <<>>)

\* Lines 191-195: the split of the files and their labels, returned as
\* (train_filenames, train_labels, validation_filenames, validation_labels).
Returned(split) == <<split[1], split[3], split[2], split[4]>>

SplitAndReturn(entries, total_filenames, labels, validation_size, random_state, override) ==
    IF SplitRaises(Len(total_filenames), validation_size)
    THEN Outcome("error", "ValueError", <<>>, "rebuild", TRUE, TRUE, FALSE, <<>>)
    ELSE Outcome("ok", "",
                 Returned(train_test_split(total_filenames, labels, validation_size, random_state)),
                 "rebuild", TRUE, TRUE, TRUE,
                 BuiltFrom(entries, validation_size, random_state, override))

\* Lines 183-189: one label row for each file left, or the KeyError of the first
\* key the table lacks.
BuildLabels(entries, total_filenames, labels_dict, validation_size, random_state, override) ==
    IF \E i \in 1..Len(total_filenames) : RaisesKeyError(labels_dict, total_filenames[i])
    THEN Outcome("error", "KeyError", <<>>, "rebuild", TRUE, TRUE, FALSE, <<>>)
    ELSE SplitAndReturn(entries, total_filenames,
                        [i \in 1..Len(total_filenames) |-> LabelRow(labels_dict, total_filenames[i])],
                        validation_size, random_state, override)

\* Lines 175-181: the label table is opened and read.
ReadTable(entries, total_filenames, table, validation_size, random_state, override) ==
    IF ~table.exists
    THEN Outcome("error", "FileNotFoundError", <<>>, "rebuild", TRUE, TRUE, FALSE, <<>>)
    ELSE BuildLabels(entries, total_filenames, ReadLabels(table.data),
                     validation_size, random_state, override)

\* The rebuilding path, up to the return value: os.listdir, the removal of the
\* corrupted files, then the steps above.
Rebuild(d, table, validation_size, random_state, override) ==
    IF ~d.exists
    THEN Outcome("error", "FileNotFoundError", <<>>, "rebuild", TRUE, FALSE, FALSE, <<>>)
    ELSE ReadTable(d.entries, RemoveCorrupted(d.entries), table,
                   validation_size, random_state, override)

\* A slip: the validation labels are never dumped, the file is left empty.
WriteArtifactsButOne(value) ==
    [train_file_split |-> pickle_dump(value[1]),
     train_label_split |-> pickle_dump(value[2]),
     validation_file_split |-> pickle_dump(value[3]),
     validation_label_split |-> File(<<>>)]

\* pickle.dump of the four collections into the four files opened "wb"
WriteArtifacts(value) ==
    [train_file_split |-> pickle_dump(value[1]),
     train_label_split |-> pickle_dump(value[2]),
     validation_file_split |-> pickle_dump(value[3]),
     validation_label_split |-> pickle_dump(value[4])]

\* A slip: the four files are opened "wb" before the split is computed, so a
\* rebuilding call that fails leaves them empty.
ArtifactsAfterOpenedFirst(a, outcome) ==
    IF outcome.wrote THEN WriteArtifacts(outcome.value)
    ELSE IF outcome.path = "rebuild" THEN [name \in ArtifactNames |-> File(<<>>)]
    ELSE a

\* The artifacts after a call: written when the call reached its open(..., "wb").
ArtifactsAfter(a, outcome) == IF outcome.wrote THEN WriteArtifacts(outcome.value) ELSE a

\* The whole call on a root whose state is (d, table, a).
Call(d, table, a, validation_size, random_state, override) ==
    IF AllArtifactsExist(a) /\ ~override
    THEN LoadPath(a)
    ELSE Rebuild(d, table, validation_size, random_state, override)


\* validation_size in percent, and random_state: the defaults and one other value
ValidationSizes == {5, 50}
RandomStates == {42, 7}

\* The state after a call whose outcome is outcome.
Return(outcome) ==
    /\ art' = ArtifactsAfter(art, outcome)
    /\ ret' = outcome
    /\ built' = IF outcome.status = "ok" /\ outcome.path = "rebuild" THEN <<outcome>> ELSE built
    /\ UNCHANGED <<dir, csv, fs, ds, out>>

rsna_train_valid_split(validation_size, random_state, override) ==
    Return(Call(dir, csv, art, validation_size, random_state, override))

\* ------------------------------------------------------------ the environment

\* A file appears in stage_2_train; where os.listdir lists it is the file system's choice.
AddFile(f, pos) ==
    /\ dir.exists
    /\ f \notin Range(dir.entries)
    /\ Len(dir.entries) < MaxFiles
    /\ pos \in 1..(Len(dir.entries) + 1)
    /\ dir' = Directory(SubSeq(dir.entries, 1, pos - 1) \o <<f>>
                        \o SubSeq(dir.entries, pos, Len(dir.entries)))
    /\ ret' = NoCall
    /\ UNCHANGED <<csv, art, built, fs, ds, out>>

RemoveFile(f) ==
    /\ dir.exists
    /\ f \in Range(dir.entries)
    /\ dir' = Directory(ListRemove(dir.entries, f))
    /\ ret' = NoCall
    /\ UNCHANGED <<csv, art, built, fs, ds, out>>

RemoveTrainDir ==
    /\ dir.exists
    /\ dir' = NoDir
    /\ ret' = NoCall
    /\ UNCHANGED <<csv, art, built, fs, ds, out>>

CreateTrainDir ==
    /\ ~dir.exists
    /\ dir' = Directory(<<>>)
    /\ ret' = NoCall
    /\ UNCHANGED <<csv, art, built, fs, ds, out>>

WriteLabelTable(rows) ==
    /\ csv # File(rows)
    /\ csv' = File(rows)
    /\ ret' = NoCall
    /\ UNCHANGED <<dir, art, built, fs, ds, out>>

RemoveLabelTable ==
    /\ csv.exists
    /\ csv' = NoFile
    /\ ret' = NoCall
    /\ UNCHANGED <<dir, art, built, fs, ds, out>>

\* ------------------------------------------------------------ image files

\* The largest number of windows a caller passes to a dataset.
MaxWindows == 2

\* What a path refers to: nothing, a directory, or a regular file (a DICOM
\* slice, a NIfTI volume, a CSV table).
Missing == [kind |-> "missing"]
DirEntry == [kind |-> "directory"]

IsFile(entry) == entry.kind \notin {"missing", "directory"}

\* The DICOM tags of the window center, the window width, the rescale intercept
\* and the rescale slope.
WindowCenterTag == <<"0028", "1050">>
WindowWidthTag == <<"0028", "1051">>
InterceptTag == <<"0028", "1052">>
SlopeTag == <<"0028", "1053">>

\* A value of a DICOM field: a number, or a pydicom MultiValue of numbers.
Single(v) == [type |-> "DSfloat", value |-> v]
MultiValue(vs) == [type |-> "MultiValue", values |-> vs]

Dicom(pixel_array, tags) == [kind |-> "dicom", pixel_array |-> pixel_array, tags |-> tags]
Nifti(fdata) == [kind |-> "nifti", fdata |-> fdata]

\* A slice whose fields are numbers.
DicomSingle ==
    Dicom(<<<<1000, 1064>>, <<1104, 1300>>>>,
          [t \in {WindowCenterTag, WindowWidthTag, InterceptTag, SlopeTag} |->
              CASE t = WindowCenterTag -> Single(40)
                [] t = WindowWidthTag -> Single(80)
                [] t = InterceptTag -> Single(-1024)
                [] t = SlopeTag -> Single(1)])

\* A slice whose window center and width are MultiValues.
DicomMulti ==
    Dicom(<<<<10, 20>>, <<40, 60>>>>,
          [t \in {WindowCenterTag, WindowWidthTag, InterceptTag, SlopeTag} |->
              CASE t = WindowCenterTag -> MultiValue(<<36, 47>>)
                [] t = WindowWidthTag -> MultiValue(<<100, 80>>)
                [] t = InterceptTag -> Single(-20)
                [] t = SlopeTag -> Single(2)])

\* A slice without a window width.
DicomNoWidth ==
    Dicom(<<<<10, 20>>, <<40, 60>>>>,
          [t \in {WindowCenterTag, InterceptTag, SlopeTag} |->
              CASE t = WindowCenterTag -> Single(40)
                [] t = InterceptTag -> Single(0)
                [] t = SlopeTag -> Single(1)])

\* A scan and its mask: two slices each (the last axis is the slice index).
ScanVolume == Nifti(<<<<<<0, 30>>, <<70, 110>>>>, <<<<-20, 45>>, <<90, 300>>>>>>)
MaskVolume == Nifti(<<<<<<0, 0>>, <<0, 0>>>>, <<<<0, 2>>, <<2, 0>>>>>>)

\* hemorrhage_diagnosis_raw_ct.csv: one row per slice, the columns by name.
DiagnosisRow(e, p, v, a, d, n) ==
    [Epidural |-> e, Intraparenchymal |-> p, Intraventricular |-> v,
     Subarachnoid |-> a, Subdural |-> d, No_Hemorrhage |-> n]

DiagnosisCsv ==
    [kind |-> "csv", rows |-> <<DiagnosisRow("0", "0", "0", "0", "0", "1"),
                                DiagnosisRow("0", "1", "0", "0", "0", "0")>>]

\* os.path.join(directory, name)
Join(directory, name) == <<directory, name>>

VolumeName == <<"049", ".", "nii">>

SlicePaths == {Join("stage_2_train", FileA), Join("stage_2_train", FileB)}
ScanPath == Join("ct_scans", VolumeName)
MaskPath == Join("masks", VolumeName)
DiagnosisPath == <<"hemorrhage_diagnosis_raw_ct.csv">>
NullPath == <<>>

Paths == SlicePaths \cup {ScanPath, MaskPath, DiagnosisPath}

\* The file systems a run starts from.
FileSystems ==
    {f \in [Paths -> {Missing, DirEntry, DicomSingle, DicomMulti, DicomNoWidth,
                      ScanVolume, MaskVolume, DiagnosisCsv}] :
        /\ f[Join("stage_2_train", FileA)] \in {DicomSingle, Missing}
        /\ f[Join("stage_2_train", FileB)] \in {DicomMulti, DirEntry, DicomNoWidth}
        /\ f[ScanPath] = ScanVolume
        /\ f[MaskPath] \in {MaskVolume, Missing}
        /\ f[DiagnosisPath] = DiagnosisCsv}

\* A slip: os.path.exists in place of os.path.isfile.
exists(files, file_path) == file_path \in DOMAIN files /\ files[file_path].kind # "missing"

\* os.path.isfile(file_path)
isfile(files, file_path) == file_path \in DOMAIN files /\ IsFile(files[file_path])

\* ------------------------------------------------------------ windowing

\* The outcome of a function: a value, or the exception raised.
Ok(value) == [status |-> "ok", error |-> "", value |-> value]
Raise(error) == [status |-> "error", error |-> error, value |-> <<>>]

Max(a, b) == IF a >= b THEN a ELSE b
Min(a, b) == IF a <= b THEN a ELSE b

\* One intensity through a window: rescaled (hu = raw * slope + intercept),
\* clipped to [center - width/2, center + width/2], and scaled linearly so that
\* the low bound maps to 0 and the high bound to 1. Bounds and intensity are
\* doubled to stay in the integers; the result is the fraction <<num, den>>.
WindowPixel(raw, window, intercept, slope) ==
    LET hu2 == 2 * (raw * slope + intercept)
        low2 == 2 * window[1] - window[2]
        high2 == 2 * window[1] + window[2]
    IN  <<Max(low2, Min(high2, hu2)) - low2, high2 - low2>>

\* preprocessing.window_image(image, window, intercept, slope): an image of the
\* same shape.
window_image(image, window, intercept, slope) ==
    [r \in DOMAIN image |->
        [c \in DOMAIN image[r] |-> WindowPixel(image[r][c], window, intercept, slope)]]

\* torch.stack(tensors): the tensors along a new first axis; an empty list raises.
torch_stack(tensors) ==
    IF tensors = <<>> THEN Raise("RuntimeError") ELSE Ok(tensors)

\* torch.cat([a, b]): along the first axis
torch_cat(a, b) == a \o b

\* A slip: each windowed image inserted at the front of the list.
WindowImagesReversed(image, windows, intercept, slope) ==
    [k \in 1..Len(windows) |->
        window_image(image, windows[Len(windows) + 1 - k], intercept, slope)]

\* The loop of _get_image_windows: one windowed image for each window, in order.
WindowImages(image, windows, intercept, slope) ==
    [k \in 1..Len(windows) |-> window_image(image, windows[k], intercept, slope)]

_get_image_windows(image, windows, intercept, slope) ==
    torch_stack(WindowImages(image, windows, intercept, slope))

\* ------------------------------------------------------------ readers

\* get x[0] as an int if x is a MultiValue, otherwise int(x)
_get_first_of_dicom_field_as_int(data) ==
    IF data.type = "MultiValue" THEN data.values[1] ELSE data.value

\* The four fields in the order center, width, intercept, slope; a field the
\* file lacks raises KeyError.
_get_windowing(data) ==
    IF {WindowCenterTag, WindowWidthTag, InterceptTag, SlopeTag} \subseteq DOMAIN data.tags
    THEN Ok([k \in 1..4 |->
                _get_first_of_dicom_field_as_int(
                    data.tags[<<WindowCenterTag, WindowWidthTag, InterceptTag, SlopeTag>>[k]])])
    ELSE Raise("KeyError")

\* What a read did: its outcome, and whether it went on to parse the file.
ReadResult(result, parsed) ==
    [status |-> result.status, error |-> result.error, value |-> result.value,
     parsed |-> parsed]

\* pydicom.read_file(file_path) and what follows it in _read_image_2d
ParseDicom(entry) ==
    IF entry.kind # "dicom" THEN Raise("InvalidDicomError")
    ELSE IF _get_windowing(entry).status = "error" THEN _get_windowing(entry)
    ELSE Ok([image |-> entry.pixel_array, window_params |-> _get_windowing(entry).value])

\* The two assertions of the readers hold.
PathAsserted(files, file_path) == file_path # NullPath /\ isfile(files, file_path)

_read_image_2d(files, file_path) ==
    IF ~PathAsserted(files, file_path)
    THEN ReadResult(Raise("AssertionError"), FALSE)
    ELSE ReadResult(ParseDicom(files[file_path]), TRUE)

\* rotate(image, 90) of a square slice: a quarter turn counter-clockwise
Rotate90(slice) ==
    [i \in 1..Len(slice[1]) |-> [j \in 1..Len(slice) |-> slice[j][Len(slice[1]) + 1 - i]]]

\* nibabel.load(file_path).get_fdata(), then the rotation of every slice
ParseNifti(entry, do_rotate) ==
    IF entry.kind # "nifti" THEN Raise("ImageFileError")
    ELSE IF do_rotate
    THEN Ok([z \in 1..Len(entry.fdata) |-> Rotate90(entry.fdata[z])])
    ELSE Ok(entry.fdata)

_read_image_3d(files, file_path, do_rotate) ==
    IF ~PathAsserted(files, file_path)
    THEN ReadResult(Raise("AssertionError"), FALSE)
    ELSE ReadResult(ParseNifti(files[file_path], do_rotate), TRUE)

\* ------------------------------------------------------------ datasets

\* The windows argument of a dataset: None, or a list of (center, width) pairs.
NoWindows == [given |-> FALSE, list |-> <<>>]
Windows(list) == [given |-> TRUE, list |-> list]

WindowChoices == {<<40, 120>>, <<80, 200>>}

WindowLists == UNION {[1..n -> WindowChoices] : n \in 0..MaxWindows}

WindowArguments == {NoWindows} \cup {Windows(list) : list \in WindowLists}

NoDataset == [class |-> "none"]

\* RSNAICHDataset.__init__
RSNAICHDataset(filenames, labels, windows) ==
    [class |-> "RSNAICHDataset", train_dir |-> "stage_2_train",
     filenames |-> filenames, labels |-> labels, windows |-> windows]

\* Lines 40-44: the default window first, then the caller's windows, if any.
RSNAChannels(image, window_params, windows) ==
    IF windows.given
    THEN IF _get_image_windows(image, windows.list, window_params[3], window_params[4]).status
               = "error"
         THEN _get_image_windows(image, windows.list, window_params[3], window_params[4])
         ELSE Ok(torch_cat(
                  _get_image_windows(image, <<<<window_params[1], window_params[2]>>>>,
                                     window_params[3], window_params[4]).value,
                  _get_image_windows(image, windows.list,
                                     window_params[3], window_params[4]).value))
    ELSE _get_image_windows(image, <<<<window_params[1], window_params[2]>>>>,
                            window_params[3], window_params[4])

\* A sample: what __getitem__ returns (no mask for the RSNA dataset).
Sample(channels, mask, label) ==
    IF channels.status = "error" THEN channels
    ELSE Ok([image |-> channels.value, mask |-> mask, label |-> label])

RSNASample(read, windows, label) ==
    IF read.status = "error" THEN Raise(read.error)
    ELSE Sample(RSNAChannels(read.value.image, read.value.window_params, windows), <<>>, label)

\* RSNAICHDataset.__getitem__(item), the transform being None
RSNA_getitem(self, files, item) ==
    RSNASample(_read_image_2d(files, Join(self.train_dir, self.filenames[item])),
               self.windows, self.labels[item])

\* float(text) of the six columns of a row, the last one turned into
\* "any hemorrhage" = 1 - "no hemorrhage"
DiagnosisLabel(row) ==
    <<ParseFloat(row.Epidural), ParseFloat(row.Intraparenchymal),
      ParseFloat(row.Intraventricular), ParseFloat(row.Subarachnoid),
      ParseFloat(row.Subdural), 1 - ParseFloat(row.No_Hemorrhage)>>

\* os.listdir(self.scans_dir)
ListScans(files) == IF files[ScanPath].kind = "missing" THEN <<>> ELSE <<VolumeName>>

\* The loop of read_dataset over the scans: the slices of every scan and of its
\* mask, appended in order; the first read that fails ends it.
RECURSIVE ReadVolumes(_, _, _, _, _)
ReadVolumes(files, filenames, k, slices, masks) ==
    IF k > Len(filenames) THEN Ok([slices |-> slices, masks |-> masks])
    ELSE IF _read_image_3d(files, Join("ct_scans", filenames[k]), TRUE).status = "error"
    THEN Raise(_read_image_3d(files, Join("ct_scans", filenames[k]), TRUE).error)
    ELSE IF _read_image_3d(files, Join("masks", filenames[k]), TRUE).status = "error"
    THEN Raise(_read_image_3d(files, Join("masks", filenames[k]), TRUE).error)
    ELSE ReadVolumes(files, filenames, k + 1,
                     slices \o _read_image_3d(files, Join("ct_scans", filenames[k]), TRUE).value,
                     masks \o _read_image_3d(files, Join("masks", filenames[k]), TRUE).value)

\* PhysioNetICHDataset.__init__ with read_dataset
PhysioNetObject(volumes, labels, windows) ==
    IF volumes.status = "error" THEN volumes
    ELSE Ok([class |-> "PhysioNetICHDataset", slices |-> volumes.value.slices,
             masks |-> volumes.value.masks, labels |-> labels, windows |-> windows])

PhysioNetICHDataset(files, windows) ==
    IF ~isfile(files, DiagnosisPath) THEN Raise("FileNotFoundError")
    ELSE PhysioNetObject(ReadVolumes(files, ListScans(files), 1, <<>>, <<>>),
                         [i \in 1..Len(files[DiagnosisPath].rows) |->
                             DiagnosisLabel(files[DiagnosisPath].rows[i])],
                         windows)

GridValues(grid) == {grid[r][c] : r \in DOMAIN grid, c \in DOMAIN grid[1]}
GridMax(grid) == CHOOSE m \in GridValues(grid) : \A v \in GridValues(grid) : v <= m
GridMin(grid) == CHOOSE m \in GridValues(grid) : \A v \in GridValues(grid) : m <= v

\* if mask.max() > 0: mask = (mask - mask.min()) / (mask.max() - mask.min()),
\* each quotient kept as <<numerator, denominator>>
NormalizeMask(mask) ==
    IF GridMax(mask) > 0
    THEN [r \in DOMAIN mask |->
             [c \in DOMAIN mask[r] |-> <<mask[r][c] - GridMin(mask), GridMax(mask) - GridMin(mask)>>]]
    ELSE mask

\* Lines 113-117: the default window (40, 120) first, then the caller's windows.
PhysioNetChannels(image, windows) ==
    IF windows.given
    THEN IF _get_image_windows(image, windows.list, 0, 1).status = "error"
         THEN _get_image_windows(image, windows.list, 0, 1)
         ELSE Ok(torch_cat(_get_image_windows(image, <<<<40, 120>>>>, 0, 1).value,
                           _get_image_windows(image, windows.list, 0, 1).value))
    ELSE _get_image_windows(image, <<<<40, 120>>>>, 0, 1)

\* PhysioNetICHDataset.__getitem__(item), the transform being None
PhysioNet_getitem(self, item) ==
    IF item > Len(self.labels) THEN Raise("IndexError")
    ELSE Sample(PhysioNetChannels(self.slices[item], self.windows),
                NormalizeMask(self.masks[item]), self.labels[item])

\* ------------------------------------------------------------ the operations on images

\* What an operation did: which one, on what (an item or a path), its outcome,
\* and for a read whether the file was parsed.
Done(op, arg, result, parsed) ==
    [op |-> op, arg |-> arg, status |-> result.status, error |-> result.error,
     value |-> result.value, parsed |-> parsed]

NothingDone == Done("none", <<>>, Ok(<<>>), FALSE)

\* The file names and label rows a caller hands to RSNAICHDataset.
SliceNames == <<FileA, FileB>>
SliceLabels == <<<<1, 0, 0, 0, 0, 1>>, <<0, 0, 0, 0, 0, 0>>>>

NewRSNA(windows) ==
    /\ ds' = RSNAICHDataset(SliceNames, SliceLabels, windows)
    /\ out' = Done("RSNAICHDataset", <<>>, Ok(<<>>), FALSE)
    /\ UNCHANGED <<fs, dir, csv, art, ret, built>>

Constructed(result) ==
    /\ ds' = IF result.status = "ok" THEN result.value ELSE ds
    /\ out' = Done("PhysioNetICHDataset", <<>>,
                   IF result.status = "ok" THEN Ok(<<>>) ELSE result, FALSE)
    /\ UNCHANGED <<fs, dir, csv, art, ret, built>>

NewPhysioNet(windows) == Constructed(PhysioNetICHDataset(fs, windows))

RSNAGetItem(item) ==
    /\ ds.class = "RSNAICHDataset"
    /\ item \in 1..Len(ds.filenames)
    /\ out' = Done("RSNAICHDataset.__getitem__", item, RSNA_getitem(ds, fs, item), FALSE)
    /\ UNCHANGED <<fs, ds, dir, csv, art, ret, built>>

PhysioNetGetItem(item) ==
    /\ ds.class = "PhysioNetICHDataset"
    /\ item \in 1..Len(ds.slices)
    /\ out' = Done("PhysioNetICHDataset.__getitem__", item, PhysioNet_getitem(ds, item), FALSE)
    /\ UNCHANGED <<fs, ds, dir, csv, art, ret, built>>

Read(op, file_path, read) ==
    /\ out' = Done(op, file_path, read, read.parsed)
    /\ UNCHANGED <<fs, ds, dir, csv, art, ret, built>>

ReadImage2d(file_path) == Read("_read_image_2d", file_path, _read_image_2d(fs, file_path))

ReadImage3d(file_path, do_rotate) ==
    Read("_read_image_3d", file_path, _read_image_3d(fs, file_path, do_rotate))

\* ------------------------------------------------------------ the specifications

NoArtifacts == [name \in ArtifactNames |-> NoFile]

\* A split persisted by an earlier run, and the same with one artifact lost.
EarlierSplit ==
    WriteArtifacts(<<<<FileA>>, <<<<1, 0, 0, 0, 0, 1>>>>, <<FileB>>, <<<<0, 0, 0, 0, 0, 0>>>>>>)

EarlierSplitIncomplete == [EarlierSplit EXCEPT !.validation_label_split = NoFile]

NoImages == [p \in Paths |-> Missing]

\* The split builder on a root whose stage_2_train and label table change
\* between the calls.
Init ==
    /\ dir = Directory(<<>>)
    /\ csv = File(TableNoCorrupted)
    /\ art \in {NoArtifacts, EarlierSplit, EarlierSplitIncomplete}
    /\ ret = NoCall
    /\ built = <<>>
    /\ fs = NoImages
    /\ ds = NoDataset
    /\ out = NothingDone

Next ==
    \/ \E validation_size \in ValidationSizes, random_state \in RandomStates, override \in BOOLEAN :
           rsna_train_valid_split(validation_size, random_state, override)
    \/ \E f \in FileNames, pos \in 1..(MaxFiles + 1) : AddFile(f, pos)
    \/ \E f \in FileNames : RemoveFile(f)
    \/ RemoveTrainDir
    \/ CreateTrainDir
    \/ \E rows \in Tables : WriteLabelTable(rows)
    \/ RemoveLabelTable

Spec == Init /\ [][Next]_vars

\* The datasets and the readers on a root whose image files do not change.
InitData ==
    /\ dir = Directory(<<>>)
    /\ csv = NoFile
    /\ art = NoArtifacts
    /\ ret = NoCall
    /\ built = <<>>
    /\ fs \in FileSystems
    /\ ds = NoDataset
    /\ out = NothingDone

NextData ==
    \/ \E windows \in WindowArguments : NewRSNA(windows)
    \/ \E windows \in WindowArguments : NewPhysioNet(windows)
    \/ \E item \in 1..2 : RSNAGetItem(item)
    \/ \E item \in 1..2 : PhysioNetGetItem(item)
    \/ \E file_path \in Paths \cup {NullPath} : ReadImage2d(file_path)
    \/ \E file_path \in Paths \cup {NullPath}, do_rotate \in BOOLEAN :
           ReadImage3d(file_path, do_rotate)

SpecData == InitData /\ [][NextData]_vars

\* ------------------------------------------------------------ the split: claims

Calls == ValidationSizes \X RandomStates \X BOOLEAN

\* A step of rsna_train_valid_split (the other steps change dir or csv).
CallStep ==
    /\ UNCHANGED <<dir, csv>>
    /\ \E c \in Calls : rsna_train_valid_split(c[1], c[2], c[3])

\* A step of rsna_train_valid_split with override false.
PlainCallStep ==
    /\ UNCHANGED <<dir, csv>>
    /\ \E validation_size \in ValidationSizes, random_state \in RandomStates :
           rsna_train_valid_split(validation_size, random_state, FALSE)

RebuiltOk(r) == r.status = "ok" /\ r.path = "rebuild"

TrainFiles(r) == r.value[1]
TrainLabels(r) == r.value[2]
ValidationFiles(r) == r.value[3]
ValidationLabels(r) == r.value[4]

\* The table has a row (after its header) for the key.
HasRow(rows, key) == \E i \in 2..Len(rows) : rows[i][1] = key

\* C1: the record a rebuilding call returns has no file name in both the train
\* and the validation collection, and the corrupted file in neither.
C1_DisjointNoCorrupted ==
    RebuiltOk(ret) =>
        /\ Range(TrainFiles(ret)) \cap Range(ValidationFiles(ret)) = {}
        /\ CorruptedFile \notin Range(TrainFiles(ret)) \cup Range(ValidationFiles(ret))

\* A split was built from a directory that holds the corrupted file and two others.
C1_Witness ==
    /\ RebuiltOk(ret)
    /\ CorruptedFile \in Range(dir.entries)
    /\ Len(dir.entries) = 3

\* C2: in the record a rebuilding call returns, each subset has as many label
\* rows as file names, the two subsets together hold exactly the entries of the
\* directory but the corrupted file, and the label row at each position is the
\* row built from the table for the file name at that position.
C2_LabelsAligned ==
    RebuiltOk(ret) =>
        /\ Len(TrainFiles(ret)) = Len(TrainLabels(ret))
        /\ Len(ValidationFiles(ret)) = Len(ValidationLabels(ret))
        /\ Range(TrainFiles(ret)) \cup Range(ValidationFiles(ret))
               = Range(dir.entries) \ {CorruptedFile}
        /\ \A i \in 1..Len(TrainFiles(ret)) :
               TrainLabels(ret)[i] = LabelRow(ReadLabels(csv.data), TrainFiles(ret)[i])
        /\ \A i \in 1..Len(ValidationFiles(ret)) :
               ValidationLabels(ret)[i] = LabelRow(ReadLabels(csv.data), ValidationFiles(ret)[i])

\* A split of three files whose label rows differ from one another.
C2_Witness ==
    /\ RebuiltOk(ret)
    /\ Len(TrainFiles(ret)) = 2
    /\ TrainLabels(ret)[1] # TrainLabels(ret)[2]
    /\ ValidationLabels(ret)[1] # TrainLabels(ret)[1]

\* C3: with the four artifacts present and override false, the call returns what
\* the artifacts hold, as (train file names, train labels, validation file
\* names, validation labels); it does not list the directory, read the label
\* table or write an artifact, and the artifacts are as they were.
C3_FastPath ==
    [][(AllArtifactsExist(art) /\ PlainCallStep) =>
          /\ ret'.status = "ok"
          /\ ret'.value = <<art.train_file_split.data[1], art.train_label_split.data[1],
                            art.validation_file_split.data[1],
                            art.validation_label_split.data[1]>>
          /\ ~ret'.listed /\ ~ret'.readLabels /\ ~ret'.wrote
          /\ art' = art]_vars

\* The artifacts of a split of three files were loaded.
C3_Witness ==
    /\ ret.status = "ok"
    /\ ret.path = "load"
    /\ Len(TrainFiles(ret)) + Len(ValidationFiles(ret)) = 3

\* C4: once a rebuilding call has returned, the four artifacts exist and hold the
\* record it returned, and a call that loads them returns that record, without
\* reading the label table.
C4_PersistedAndReloaded ==
    built # <<>> =>
        /\ AllArtifactsExist(art)
        /\ <<art.train_file_split.data, art.train_label_split.data,
             art.validation_file_split.data, art.validation_label_split.data>>
               = <<<<TrainFiles(built[1])>>, <<TrainLabels(built[1])>>,
                   <<ValidationFiles(built[1])>>, <<ValidationLabels(built[1])>>>>
        /\ ret.path = "load" =>
               (ret.status = "ok" /\ ret.value = built[1].value /\ ~ret.readLabels)

\* A later call loaded the split although the directory no longer holds its files.
C4_Witness ==
    /\ built # <<>>
    /\ ret.path = "load"
    /\ dir.exists
    /\ Range(TrainFiles(ret)) \cup Range(ValidationFiles(ret)) # Range(dir.entries) \ {CorruptedFile}

\* C5: two calls with override true on the same directory contents, with the same
\* validation fraction and the same seed, give the same train file names and
\* the same validation file names (as sets).
C5_SameSeedSameSplit ==
    [][(/\ built # <<>>
        /\ RebuiltOk(ret')
        /\ ret'.from[1].override
        /\ built[1].from = ret'.from
        /\ CallStep) =>
          /\ Range(TrainFiles(ret')) = Range(TrainFiles(built[1]))
          /\ Range(ValidationFiles(ret')) = Range(ValidationFiles(built[1]))]_vars

\* C6: a rebuilding call that finds the directory and the label table raises
\* KeyError exactly when the table lacks a row for some key of some listed file
\* other than the corrupted one.
C6_MissingLabel ==
    (ret.path = "rebuild" /\ dir.exists /\ csv.exists) =>
        ((ret.status = "error" /\ ret.error = "KeyError")
            <=> \E f \in Range(dir.entries) \ {CorruptedFile} :
                    \E i \in 1..Len(SUBTYPES) : ~HasRow(csv.data, LabelKey(f, SUBTYPES[i])))

\* A rebuilding call raised KeyError with the corrupted file in the directory.
C6_Witness ==
    /\ ret.status = "error"
    /\ ret.error = "KeyError"
    /\ CorruptedFile \in Range(dir.entries)

\* C10: a rebuilding call that fails leaves the four artifacts as they were.
C10_FailureKeepsArtifacts ==
    [][(ret'.path = "rebuild" /\ ret'.status = "error" /\ CallStep) => art' = art]_vars

\* A rebuilding call failed after an earlier one had persisted a split.
C10_Witness ==
    /\ ret.status = "error"
    /\ ret.path = "rebuild"
    /\ built # <<>>
    /\ AllArtifactsExist(art)

\* ------------------------------------------------------------ the datasets and readers: claims

IsGetItem(o) == o.op \in {"RSNAICHDataset.__getitem__", "PhysioNetICHDataset.__getitem__"}

\* The raw image of the sample that was accessed, and the calibration its
\* default window is computed with: (center, width, intercept, slope).
RawImage ==
    IF out.op = "RSNAICHDataset.__getitem__"
    THEN fs[Join("stage_2_train", ds.filenames[out.arg])].pixel_array
    ELSE ds.slices[out.arg]

Calibration ==
    IF out.op = "RSNAICHDataset.__getitem__"
    THEN _get_windowing(fs[Join("stage_2_train", ds.filenames[out.arg])]).value
    ELSE <<40, 120, 0, 1>>

\* The sample that was accessed can be read: for the RSNA dataset its file is a
\* DICOM slice with the four calibration fields.
Readable ==
    out.op = "RSNAICHDataset.__getitem__" =>
        /\ fs[Join("stage_2_train", ds.filenames[out.arg])].kind = "dicom"
        /\ _get_windowing(fs[Join("stage_2_train", ds.filenames[out.arg])]).status = "ok"

\* C7: with windows None or a list of n >= 1 windows, the image a sample access
\* returns has 1 + n channels (1 for None): the first is the default window (the
\* file's own calibration for the RSNA dataset, (40, 120) with intercept 0 and
\* slope 1 for the PhysioNet dataset), and channel 1 + k is the caller's k-th window.
C7_ChannelOrder ==
    (IsGetItem(out) /\ out.status = "ok" /\ (ds.windows.given => ds.windows.list # <<>>)) =>
        /\ Len(out.value.image) = 1 + Len(ds.windows.list)
        /\ out.value.image[1]
               = window_image(RawImage, <<Calibration[1], Calibration[2]>>,
                              Calibration[3], Calibration[4])
        /\ \A k \in 1..Len(ds.windows.list) :
               out.value.image[1 + k]
                   = window_image(RawImage, ds.windows.list[k], Calibration[3], Calibration[4])

\* A sample of the RSNA dataset was accessed with two different windows, and its
\* three channels differ from one another.
C7_Witness ==
    /\ out.op = "RSNAICHDataset.__getitem__"
    /\ out.status = "ok"
    /\ Len(ds.windows.list) = 2
    /\ ds.windows.list[1] # ds.windows.list[2]
    /\ out.value.image[1] # out.value.image[2]
    /\ out.value.image[2] # out.value.image[3]

\* C8: with an empty list of windows, the access to a readable sample succeeds
\* and returns an image of exactly one channel.
C8_EmptyWindowsOneChannel ==
    (IsGetItem(out) /\ ds.windows.given /\ ds.windows.list = <<>> /\ Readable) =>
        /\ out.status = "ok"
        /\ Len(out.value.image) = 1

\* C9: a read of a path that is no existing regular file raises the assertion's
\* error without parsing anything, and returns nothing.
C9_NotFound ==
    (/\ out.op \in {"_read_image_2d", "_read_image_3d"}
     /\ (out.arg \in Paths => fs[out.arg].kind \in {"missing", "directory"})) =>
        /\ out.status = "error"
        /\ out.error = "AssertionError"
        /\ ~out.parsed
        /\ out.value = <<>>

\* A directory was given to the reader of slices.
C9_Witness ==
    /\ out.op = "_read_image_2d"
    /\ out.arg \in Paths
    /\ fs[out.arg].kind = "directory"

====
